---------------------------- MODULE Spec2Model ----------------------------
(***************************************************************************)
(* myFlix REST API (src/js/index.js): the Express routes over the Users    *)
(* and Movies collections.  A request runs its synchronous prefix (token   *)
(* guard, field validation) when it is received, and then one step per     *)
(* store call: the call executes atomically at the store and its promise   *)
(* callback sends the response or issues the next call.  Other requests    *)
(* may run between any two store calls of one request.                     *)
(***************************************************************************)
EXTENDS Naturals, Sequences, FiniteSets

(* Number of requests the API receives in one run. *)
MaxReqs == 2

ReqIds == 1..MaxReqs

None == "none"

Range(s) == {s[i] : i \in DOMAIN s}

----------------------------------------------------------------------------
(* Input strings, as sequences of characters. *)

Letters == {"a", "b", "c", "e", "i", "l", "m", "o"}
Digits  == {"0", "1"}

alice == <<"a", "l", "i", "c", "e">>
bob01 == <<"b", "o", "b", "0", "1">>
bob   == <<"b", "o", "b">>
al_ce == <<"a", "l", "_", "c", "e">>

pw  == <<"p", "w">>
pw2 == <<"p", "w", "2">>

mailOk  == <<"a", "@", "b", ".", "c", "o", "m">>
mailBad == <<"a", "b", ".", "c", "o", "m">>

(* express-validator checks of POST /users and PUT /users/:Username. *)
MinUsernameLen == 5

IsLength(s) == Len(s) >= MinUsernameLen

IsAlphanumeric(s) == Len(s) > 0 /\ \A i \in DOMAIN s : s[i] \in Letters \cup Digits

IsEmpty(s) == Len(s) = 0

IsEmail(s) ==
    \E i \in DOMAIN s :
        /\ s[i] = "@"
        /\ \A j \in DOMAIN s : s[j] = "@" => j = i
        /\ i > 1
        /\ \E k \in DOMAIN s : k > i + 1 /\ k < Len(s) /\ s[k] = "."

(* Faulty variant: the isAlphanumeric check left out. *)
validationResultNoAlphanumeric(body) ==
    /\ IsLength(body.Username)
    /\ ~IsEmpty(body.Password)
    /\ IsEmail(body.Email)

validationResult(body) ==
    /\ IsLength(body.Username)
    /\ IsAlphanumeric(body.Username)
    /\ ~IsEmpty(body.Password)
    /\ IsEmail(body.Email)

(* Users.hashPassword: a one-way digest, never the plaintext itself. *)
hashPassword(p) == <<"hash", p>>

----------------------------------------------------------------------------
(* The Movies collection as seeded; the ids a client can name. *)

SeedMovies ==
    { [id |-> "m1", Title |-> "Up",   Genre |-> "Drama",  Director |-> "Docter"],
      [id |-> "m2", Title |-> "Cars", Genre |-> "Comedy", Director |-> "Lasseter"] }

(* m9 is a well-formed id of no movie; bad is not a well-formed id. *)
MovieIDs == {"m1", "m2", "m9", "bad"}

WellFormedId(id) == id # "bad"

Titles == {"Up", "Nope"}
GenreNames == {"Drama"}
DirectorNames == {"Docter"}

PathUsernames == {alice, bob01}

(* The user whose favorites the requests manage; it has a record or not. *)
FavoritesUsernames == {alice}

Body(u, p, e, d) == [Username |-> u, Password |-> p, Email |-> e, Birthday |-> d]

Bodies ==
    { Body(alice, pw,  mailOk,  "d1"),
      Body(bob01, pw2, mailOk,  "d2"),
      Body(bob,   pw,  mailOk,  "d1"),
      Body(al_ce, pw,  mailOk,  "d1"),
      Body(alice, <<>>,  mailOk,  "d1"),
      Body(alice, pw,  mailBad, "d1") }

NoBody == [Username |-> <<>>, Password |-> <<>>, Email |-> <<>>, Birthday |-> None]

Tokens == {"valid", "absent"}

(* passport.authenticate('jwt'): accepts a correctly signed, unexpired token. *)
TokenOk(token) == token = "valid"

(* The identity a token carries: the tokens presented were issued to alice. *)
Subject(token) == alice


----------------------------------------------------------------------------
(* Requests. *)

Ops == {"getMovies", "getUsers", "getMovie", "getGenre", "getDirector",
        "register", "update", "addFavorite", "removeFavorite", "deregister"}

Request(op, token, username, body, movieId, name) ==
    [op |-> op, pc |-> "received", token |-> token, Username |-> username,
     body |-> body, MovieID |-> movieId, Name |-> name, res |-> <<>>,
     rejected |-> None]

Idle == [Request("none", None, <<>>, NoBody, None, None) EXCEPT !.pc = "idle"]

(* Authorized requests of every route, and registrations (no token needed). *)
Authorized ==
    {Request(op, "valid", <<>>, NoBody, None, None) : op \in {"getMovies", "getUsers"}}
    \cup {Request("getMovie", "valid", <<>>, NoBody, None, n) : n \in Titles}
    \cup {Request("getGenre", "valid", <<>>, NoBody, None, n) : n \in GenreNames}
    \cup {Request("getDirector", "valid", <<>>, NoBody, None, n) : n \in DirectorNames}
    \cup {Request("register", "absent", <<>>, b, None, None) : b \in Bodies}
    \cup {Request("update", "valid", u, b, None, None) :
            u \in PathUsernames, b \in Bodies}
    \cup {Request(op, "valid", u, NoBody, m, None) :
            op \in {"addFavorite", "removeFavorite"},
            u \in FavoritesUsernames, m \in MovieIDs}
    \cup {Request("deregister", "valid", u, NoBody, None, None) : u \in PathUsernames}

(* One request of every protected route without a valid token. *)
Unauthorized ==
    { Request("getMovies", "absent", <<>>, NoBody, None, None),
      Request("getUsers", "absent", <<>>, NoBody, None, None),
      Request("getMovie", "absent", <<>>, NoBody, None, "Up"),
      Request("getGenre", "absent", <<>>, NoBody, None, "Drama"),
      Request("getDirector", "absent", <<>>, NoBody, None, "Docter"),
      Request("update", "absent", alice, Body(bob01, pw2, mailOk, "d2"), None, None),
      Request("update", "absent", alice, Body(bob, pw, mailOk, "d1"), None, None),
      Request("addFavorite", "absent", alice, NoBody, "m2", None),
      Request("removeFavorite", "absent", alice, NoBody, "m1", None),
      Request("deregister", "absent", alice, NoBody, None, None) }

Requests == Authorized \cup Unauthorized

(* Faulty variant: DELETE /users/:Username declared without the guard. *)
ProtectedButDeregister(op) == op \notin {"register", "deregister"}

(* Routes declared with passport.authenticate('jwt', ...) as first middleware. *)
Protected(op) == op # "register"

(* Routes declared with the check(...) list and a validationResult test. *)
Validated(op) == op \in {"register", "update"}

(* The first store call of each handler. *)
FirstCall(op) ==
    CASE op = "getMovies" -> "Movies.find"
      [] op = "getUsers" -> "Users.find"
      [] op \in {"getMovie", "getGenre", "getDirector"} -> "Movies.findOne"
      [] op \in {"register", "update"} -> "Users.findOne"
      [] op \in {"addFavorite", "removeFavorite"} -> "Movies.findById"
      [] op = "deregister" -> "Users.findOneAndRemove"

(* res.status(code).send(...): one more response on the request. *)
Send(q, code) == [q EXCEPT !.pc = "done", !.res = Append(@, code)]

(* Faulty variant: the inner and the outer catch both answer. *)
CatchTwice(q, err, code) == [Send(Send(q, code), code) EXCEPT !.rejected = err]

(* A store call's promise rejects with err and the catch that handles it    *)
(* answers with code.                                                      *)
Catch(q, err, code) == [Send(q, code) EXCEPT !.rejected = err]

(* The outcomes of a store call: it resolves, or the store fails. *)
Outcomes == {"resolved", "StoreUnavailable"}

----------------------------------------------------------------------------
(* The store. *)

VARIABLES users, movies, req

vars == <<users, movies, req>>

NewUser(body) ==
    [Username |-> body.Username, Password |-> hashPassword(body.Password),
     Email |-> body.Email, Birthday |-> body.Birthday, FavoriteMovies |-> <<>>]

(* Faulty variant: the filter matches every document. *)
MatchingAny(u) == DOMAIN users

(* Documents of the Users collection matching { Username: u }. *)
Matching(u) == {i \in DOMAIN users : users[i].Username = u}

(* Faulty variants: $set of the field to the one id, and $push. *)
AddToSetOverwrite(arr, x) == <<x>>

AddToSetPush(arr, x) == Append(arr, x)

(* Faulty variant: $pop with -1, which drops the first element whatever x. *)
PullFirst(arr, x) == IF arr = <<>> THEN arr ELSE Tail(arr)

(* $addToSet and $pull on an array field. *)
AddToSet(arr, x) == IF x \in Range(arr) THEN arr ELSE Append(arr, x)

Pull(arr, x) == SelectSeq(arr, LAMBDA y : y # x)

(* Faulty variant: the update replaces the document instead of $set. *)
SetFieldsReplace(doc, body) == NewUser(body)

(* Faulty variant: $set with Password: req.body.Password, not its hash. *)
SetFieldsPlain(doc, body) ==
    [doc EXCEPT !.Username = body.Username,
                !.Password = body.Password,
                !.Email = body.Email,
                !.Birthday = body.Birthday]

(* $set of PUT /users/:Username. *)
SetFields(doc, body) ==
    [doc EXCEPT !.Username = body.Username,
                !.Password = hashPassword(body.Password),
                !.Email = body.Email,
                !.Birthday = body.Birthday]

(* Faulty variant: the filter is dropped and the first document removed. *)
RemoveFirst(s, i) == Tail(s)

(* The collection without its i-th document. *)
RemoveAt(s, i) == SubSeq(s, 1, i - 1) \o SubSeq(s, i + 1, Len(s))

MovieMatches(q, m) ==
    CASE q.op = "getMovie" -> m.Title = q.Name
      [] q.op = "getGenre" -> m.Genre = q.Name
      [] q.op = "getDirector" -> m.Director = q.Name

(* The collection as the server finds it: empty, or holding a registered    *)
(* user with one favorite.                                                 *)
InitUsers ==
    { <<>>,
      << [NewUser(Body(alice, pw, mailOk, "d1")) EXCEPT !.FavoriteMovies = <<"m1">>] >> }

Init ==
    /\ users \in InitUsers
    /\ movies = SeedMovies
    /\ req = [r \in ReqIds |-> Idle]

----------------------------------------------------------------------------
(* Request entry: the middleware chain up to the handler's first store call. *)

(* Faulty variant: the guard also looks the token's subject up in Users. *)
DispatchChecksUser(in) ==
    IF Protected(in.op) /\ (~TokenOk(in.token) \/ Matching(Subject(in.token)) = {})
    THEN Send(in, 401)
    ELSE IF Validated(in.op) /\ ~validationResult(in.body)
    THEN Send(in, 422)
    ELSE [in EXCEPT !.pc = FirstCall(in.op)]

(* Faulty variant: the field checks answer before the guard does. *)
DispatchValidatesFirst(in) ==
    IF Validated(in.op) /\ ~validationResult(in.body)
    THEN Send(in, 422)
    ELSE IF Protected(in.op) /\ ~TokenOk(in.token)
    THEN Send(in, 401)
    ELSE [in EXCEPT !.pc = FirstCall(in.op)]

Dispatch(in) ==
    IF Protected(in.op) /\ ~TokenOk(in.token)
    THEN Send(in, 401)
    ELSE IF Validated(in.op) /\ ~validationResult(in.body)
    THEN Send(in, 422)
    ELSE [in EXCEPT !.pc = FirstCall(in.op)]

Receive(r) ==
    /\ req[r].pc = "idle"
    /\ \A q \in ReqIds : q < r => req[q].pc # "idle"
    /\ \E in \in Requests : req' = [req EXCEPT ![r] = Dispatch(in)]
    /\ UNCHANGED <<users, movies>>

----------------------------------------------------------------------------------------------------------------------------------------
(* Read routes. *)

MoviesFind(r) ==
    /\ req[r].pc = "Movies.find"
    /\ \E out \in Outcomes :
        req' = [req EXCEPT ![r] =
                  IF out # "resolved" THEN Catch(@, out, 500) ELSE Send(@, 200)]
    /\ UNCHANGED <<users, movies>>

UsersFind(r) ==
    /\ req[r].pc = "Users.find"
    /\ \E out \in Outcomes :
        req' = [req EXCEPT ![r] =
                  IF out # "resolved" THEN Catch(@, out, 500) ELSE Send(@, 200)]
    /\ UNCHANGED <<users, movies>>

MoviesFindOne(r) ==
    /\ req[r].pc = "Movies.findOne"
    /\ \E out \in Outcomes :
        req' = [req EXCEPT ![r] =
                  IF out # "resolved" THEN Catch(@, out, 500)
                  ELSE IF \E m \in movies : MovieMatches(req[r], m)
                  THEN Send(@, 200)
                  ELSE Send(@, 404)]
    /\ UNCHANGED <<users, movies>>

----------------------------------------------------------------------------
(* POST /users and PUT /users/:Username. *)

(* Faulty variant: the user the lookup found is not tested. *)
FindOneThenUnchecked(q, out, write) ==
    IF out # "resolved" THEN Catch(q, out, 500) ELSE [q EXCEPT !.pc = write]

(* Users.findOne({ Username: req.body.Username }).then((user) => if (user)  *)
(* 409 else the write) .catch(500), the same in both handlers.              *)
FindOneThen(q, out, write) ==
    IF out # "resolved" THEN Catch(q, out, 500)
    ELSE IF Matching(q.body.Username) # {} THEN Send(q, 409)
    ELSE [q EXCEPT !.pc = write]

RegisterFindOne(r) ==
    /\ req[r].op = "register"
    /\ req[r].pc = "Users.findOne"
    /\ \E out \in Outcomes :
        req' = [req EXCEPT ![r] = FindOneThen(@, out, "Users.create")]
    /\ UNCHANGED <<users, movies>>

RegisterCreate(r) ==
    /\ req[r].pc = "Users.create"
    /\ \E out \in Outcomes :
        IF out # "resolved"
        THEN /\ users' = users
             /\ req' = [req EXCEPT ![r] = Catch(@, out, 500)]
        ELSE /\ users' = Append(users, NewUser(req[r].body))
             /\ req' = [req EXCEPT ![r] = Send(@, 201)]
    /\ UNCHANGED movies

UpdateFindOne(r) ==
    /\ req[r].op = "update"
    /\ req[r].pc = "Users.findOne"
    /\ \E out \in Outcomes :
        req' = [req EXCEPT ![r] = FindOneThen(@, out, "Users.findOneAndUpdate")]
    /\ UNCHANGED <<users, movies>>

(* The update document of each findOneAndUpdate call. *)
Updated(q, doc) ==
    CASE q.op = "update" -> SetFields(doc, q.body)
      [] q.op = "addFavorite" ->
            [doc EXCEPT !.FavoriteMovies = AddToSet(@, q.MovieID)]
      [] q.op = "removeFavorite" ->
            [doc EXCEPT !.FavoriteMovies = Pull(@, q.MovieID)]

(* Faulty variant: the not-found answer sent for a document that was updated. *)
SuccessAsNotFound(op) == 404

(* The status each handler sends with the updated document. *)
Success(op) == IF op = "addFavorite" THEN 201 ELSE 200

(* Users.findOneAndUpdate({ Username: req.params.Username }, update,        *)
(* { new: true }) and its callbacks: one matching document is updated, or   *)
(* none matches and the call resolves to null.                              *)
FindOneAndUpdate(r) ==
    /\ req[r].pc = "Users.findOneAndUpdate"
    /\ \E out \in Outcomes :
        IF out # "resolved"
        THEN /\ users' = users
             /\ req' = [req EXCEPT ![r] = Catch(@, out, 500)]
        ELSE IF Matching(req[r].Username) = {}
        THEN /\ users' = users
             /\ req' = [req EXCEPT ![r] = Send(@, 404)]
        ELSE /\ \E i \in Matching(req[r].Username) :
                    users' = [users EXCEPT ![i] = Updated(req[r], @)]
             /\ req' = [req EXCEPT ![r] = Send(@, Success(req[r].op))]
    /\ UNCHANGED movies

UpdateFindOneAndUpdate(r) ==
    /\ req[r].op = "update"
    /\ FindOneAndUpdate(r)

----------------------------------------------------------------------------
(* POST and DELETE /users/:Username/movies/:MovieID. *)

(* Movies.findById(id): rejects with a CastError on an id that is no         *)
(* ObjectId, and when the store fails.                                       *)
FindByIdOutcomes(id) ==
    IF WellFormedId(id) THEN Outcomes ELSE {"CastError", "StoreUnavailable"}

(* Movies.findById(id).then(() => Users.findOneAndUpdate(...))                *)
(*   .catch(() => 404): the document the lookup resolves to is not looked at. *)
FindByIdThen(q, out) ==
    IF out # "resolved" THEN Catch(q, out, 404)
    ELSE [q EXCEPT !.pc = "Users.findOneAndUpdate"]

FindById(r) ==
    /\ req[r].pc = "Movies.findById"
    /\ \E out \in FindByIdOutcomes(req[r].MovieID) :
        req' = [req EXCEPT ![r] = FindByIdThen(@, out)]
    /\ UNCHANGED <<users, movies>>

AddFavoriteFindById(r) ==
    /\ req[r].op = "addFavorite"
    /\ FindById(r)

AddFavoriteUpdate(r) ==
    /\ req[r].op = "addFavorite"
    /\ FindOneAndUpdate(r)

RemoveFavoriteFindById(r) ==
    /\ req[r].op = "removeFavorite"
    /\ FindById(r)

RemoveFavoriteUpdate(r) ==
    /\ req[r].op = "removeFavorite"
    /\ FindOneAndUpdate(r)

----------------------------------------------------------------------------
(* DELETE /users/:Username. *)

DeregisterRemove(r) ==
    /\ req[r].pc = "Users.findOneAndRemove"
    /\ \E out \in Outcomes :
        IF out # "resolved"
        THEN /\ users' = users
             /\ req' = [req EXCEPT ![r] = Catch(@, out, 500)]
        ELSE IF Matching(req[r].Username) = {}
        THEN /\ users' = users
             /\ req' = [req EXCEPT ![r] = Send(@, 404)]
        ELSE /\ \E i \in Matching(req[r].Username) : users' = RemoveAt(users, i)
             /\ req' = [req EXCEPT ![r] = Send(@, 200)]
    /\ UNCHANGED movies

----------------------------------------------------------------------------

Step(r) ==
    \/ MoviesFind(r)
    \/ UsersFind(r)
    \/ MoviesFindOne(r)
    \/ RegisterFindOne(r)
    \/ RegisterCreate(r)
    \/ UpdateFindOne(r)
    \/ UpdateFindOneAndUpdate(r)
    \/ AddFavoriteFindById(r)
    \/ AddFavoriteUpdate(r)
    \/ RemoveFavoriteFindById(r)
    \/ RemoveFavoriteUpdate(r)
    \/ DeregisterRemove(r)

(* Requests arrive at any time and are served concurrently. *)
Next == \E r \in ReqIds : Receive(r) \/ Step(r)

Spec == Init /\ [][Next]_vars

(* A sequential run: a request arrives only when no other is being served. *)
InFlight == {r \in ReqIds : req[r].pc \notin {"idle", "done"}}

SeqNext == \E r \in ReqIds : (InFlight = {} /\ Receive(r)) \/ Step(r)

SeqSpec == Init /\ [][SeqNext]_vars

(* The account routes alone (register, update, deregister, with bodies that *)
(* pass validation), served concurrently, with one more request in the run. *)
AccountReqIds == 1..(MaxReqs + 1)

AccountRequests ==
    {q \in Authorized :
        /\ q.op \in {"register", "update", "deregister"}
        /\ Validated(q.op) => validationResult(q.body)}

AccountInit ==
    /\ users \in InitUsers
    /\ movies = SeedMovies
    /\ req = [r \in AccountReqIds |-> Idle]

AccountReceive(r) ==
    /\ req[r].pc = "idle"
    /\ \A q \in AccountReqIds : q < r => req[q].pc # "idle"
    /\ \E in \in AccountRequests : req' = [req EXCEPT ![r] = Dispatch(in)]
    /\ UNCHANGED <<users, movies>>

AccountStep(r) ==
    \/ RegisterFindOne(r)
    \/ RegisterCreate(r)
    \/ UpdateFindOne(r)
    \/ UpdateFindOneAndUpdate(r)
    \/ DeregisterRemove(r)

AccountNext == \E r \in AccountReqIds : AccountReceive(r) \/ AccountStep(r)

AccountSpec == AccountInit /\ [][AccountNext]_vars

----------------------------------------------------------------------------
(* Properties. *)

(* Request r takes the step. *)
Acts(r) == req'[r] # req[r]

(* Some user record has username u. *)
Registered(u) == \E i \in DOMAIN users : users[i].Username = u

CatalogIds == {m.id : m \in movies}

FavoritesOps == {"addFavorite", "removeFavorite"}

ProtectedRoutes ==
    {"getMovies", "getUsers", "getMovie", "getGenre", "getDirector",
     "update", "addFavorite", "removeFavorite", "deregister"}

(* C1: in every reachable state no two user records have the same Username, *)
(* whatever the interleaving of registrations and profile updates.          *)
UsernameUnique ==
    \A i, j \in DOMAIN users : users[i].Username = users[j].Username => i = j

(* C2: an addFavorite naming a movie id that is not in the catalog ends     *)
(* with 404 and the id is in no user's FavoriteMovies, whether the lookup   *)
(* rejected or resolved to no movie (a failure of the later user update,    *)
(* answered 500, set aside).                                                *)
AddFavoriteUnknownMovie ==
    \A r \in ReqIds :
        ( /\ req[r].op = "addFavorite"
          /\ req[r].pc = "done"
          /\ req[r].token = "valid"
          /\ req[r].res # <<500>>
          /\ req[r].MovieID \notin CatalogIds )
        => /\ req[r].res = <<404>>
           /\ \A i \in DOMAIN users : req[r].MovieID \notin Range(users[i].FavoriteMovies)

(* C3: a request on a protected route whose token the guard rejects is      *)
(* answered 401 at once, never reaches a store call or the validation, and  *)
(* its step changes no user or movie record.                                *)
GuardRejects(q) == q.op \in ProtectedRoutes /\ q.token # "valid"

GuardFirst ==
    /\ [](\A r \in ReqIds :
            GuardRejects(req[r]) =>
                req[r].pc = "done" /\ req[r].res = <<401>> /\ req[r].rejected = None)
    /\ [][\A r \in ReqIds :
            (Acts(r) /\ GuardRejects(req'[r])) => users' = users /\ movies' = movies]_vars

(* Every protected route is seen rejected; here a deregistration of a       *)
(* registered user and an update whose body is invalid too.                 *)
GuardFirstWitness ==
    /\ Registered(alice)
    /\ \E r \in ReqIds :
        /\ req[r].op = "deregister" /\ req[r].Username = alice
        /\ req[r].token = "absent" /\ req[r].res = <<401>>
    /\ \E r \in ReqIds :
        /\ req[r].op = "update" /\ Len(req[r].body.Username) < 5
        /\ req[r].token = "absent" /\ req[r].res = <<401>>

(* C4: a profile update is answered 409 only when its body Username is the *)
(* username of a user other than the one being updated.                     *)
UpdateConflictOnlyWithOther ==
    [][\A r \in ReqIds :
        (Acts(r) /\ req[r].op = "update" /\ req'[r].res = <<409>>) =>
            /\ Registered(req[r].body.Username)
            /\ req[r].body.Username # req[r].Username]_vars

(* The store failed under request q and q was answered 500. *)
Failed500(q) == q.rejected = "StoreUnavailable" /\ q.res = <<500>>

NoDuplicates(arr) == \A i, j \in DOMAIN arr : arr[i] = arr[j] => i = j

(* C5: when the only requests are favorites additions and removals on one   *)
(* user for pairwise distinct existing movie ids, and all have succeeded,   *)
(* the user's FavoriteMovies holds the initial ids plus every id added and  *)
(* minus every id removed, each once: no update is lost.                    *)
FavoritesNoLostUpdate ==
    LET R == {r \in ReqIds : req[r].pc # "idle"}
        added == {req[r].MovieID : r \in {x \in R : req[x].op = "addFavorite"}}
        removed == {req[r].MovieID : r \in {x \in R : req[x].op = "removeFavorite"}}
    IN  ( /\ R # {}
          /\ \A r \in R :
                /\ req[r].op \in FavoritesOps
                /\ req[r].MovieID \in CatalogIds
                /\ req[r].pc = "done"
                /\ req[r].res \in {<<200>>, <<201>>}
          /\ \A r1, r2 \in R :
                /\ req[r1].Username = req[r2].Username
                /\ r1 # r2 => req[r1].MovieID # req[r2].MovieID )
        => \E init \in InitUsers :
              /\ Len(init) = 1
              /\ Len(users) = 1
              /\ \A r \in R : req[r].Username = users[1].Username
              /\ NoDuplicates(users[1].FavoriteMovies)
              /\ Range(users[1].FavoriteMovies)
                    = (Range(init[1].FavoriteMovies) \cup added) \ removed

(* Two concurrent requests on alice, adding m2 and removing m1, both done. *)
FavoritesNoLostUpdateWitness ==
    /\ \A r \in ReqIds : req[r].pc = "done" /\ req[r].Username = alice
    /\ \E r \in ReqIds :
          req[r].op = "addFavorite" /\ req[r].MovieID = "m2" /\ req[r].res = <<201>>
    /\ \E r \in ReqIds :
          req[r].op = "removeFavorite" /\ req[r].MovieID = "m1" /\ req[r].res = <<200>>
    /\ Len(users) = 1 /\ users[1].FavoriteMovies = <<"m2">>

(* C6: a registration whose lookup finds the username taken is answered 409 *)
(* (500 if the store fails) and leaves the user records as they are; in a   *)
(* sequential run a registration answered 201 found the name free and added *)
(* one record, and the same registration sent next is answered 409.         *)
RegisterDuplicate ==
    /\ [](\A r \in ReqIds :
            ( /\ r + 1 \in ReqIds
              /\ req[r].op = "register" /\ req[r].res = <<201>>
              /\ req[r + 1].op = "register" /\ req[r + 1].body = req[r].body
              /\ req[r + 1].pc = "done" )
            => (req[r + 1].res = <<409>> \/ Failed500(req[r + 1])))
    /\ [][\A r \in ReqIds :
            (Acts(r) /\ req[r].op = "register") =>
                LET u == req[r].body.Username IN
                /\ (req[r].pc = "Users.findOne" /\ Registered(u)) =>
                      /\ users' = users
                      /\ (req'[r].res = <<409>> \/ Failed500(req'[r]))
                /\ req'[r].res = <<409>> => Registered(u) /\ users' = users
                /\ req'[r].res = <<201>> =>
                      /\ ~Registered(u)
                      /\ users' = Append(users, users'[Len(users')])
                      /\ users'[Len(users')].Username = u]_vars

RegisterDuplicateWitness ==
    /\ req[1].op = "register" /\ req[1].body.Username = alice /\ req[1].res = <<201>>
    /\ req[2].op = "register" /\ req[2].body = req[1].body /\ req[2].res = <<409>>
    /\ Len(users) = 1

(* C7: a registration whose username is shorter than 5 characters or has a  *)
(* character that is no letter or digit is answered 422; 422 is sent only   *)
(* on arrival, for a body with an invalid field, before any store call and  *)
(* with the user records unchanged; a valid registration is answered 409    *)
(* when the lookup finds the username taken and 201 otherwise (500 if the   *)
(* store fails).                                                            *)
BadUsername(u) == Len(u) < 5 \/ \E i \in DOMAIN u : u[i] \notin Letters \cup Digits

RegisterValidation ==
    [][\A r \in ReqIds :
        (Acts(r) /\ req'[r].op = "register") =>
            LET b == req'[r].body IN
            /\ req[r].pc = "idle" =>
                  /\ BadUsername(b.Username) => req'[r].res = <<422>>
                  /\ req'[r].res = <<422>> =>
                        /\ users' = users
                        /\ \/ BadUsername(b.Username)
                           \/ b.Password = ""
                           \/ b.Email = mailBad
                  /\ req'[r].res # <<422>> =>
                        req'[r].res = <<>> /\ req'[r].pc = "Users.findOne"
            /\ req[r].pc # "idle" => req'[r].res # <<422>>
            /\ req[r].pc = "Users.findOne" =>
                  IF Registered(b.Username)
                  THEN req'[r].res = <<409>> \/ Failed500(req'[r])
                  ELSE req'[r].pc = "Users.create" \/ Failed500(req'[r])
            /\ req[r].pc = "Users.create" =>
                  req'[r].res = <<201>> \/ Failed500(req'[r])]_vars

RegisterValidationWitness ==
    /\ req[1].op = "register" /\ req[1].body.Username = al_ce /\ req[1].res = <<422>>
    /\ req[2].op = "register" /\ req[2].body.Username = bob01 /\ req[2].res = <<201>>
    /\ Registered(bob01)

(* C8: no FavoriteMovies ever holds an id twice; an addFavorite of an       *)
(* existing movie already in the user's favorites, and a removeFavorite of  *)
(* one that is not in them, leave the user records as they are and are      *)
(* answered with success (201, 200; 500 if the store fails).                *)
FavoritesIdempotent ==
    /\ [](\A i \in DOMAIN users : NoDuplicates(users[i].FavoriteMovies))
    /\ [][\A r \in ReqIds :
            ( /\ Acts(r)
              /\ req[r].pc = "Users.findOneAndUpdate"
              /\ req[r].MovieID \in CatalogIds
              /\ Registered(req[r].Username) ) =>
                LET mine == {i \in DOMAIN users : users[i].Username = req[r].Username}
                    m == req[r].MovieID
                IN
                /\ ( /\ req[r].op = "addFavorite"
                     /\ \A i \in mine : m \in Range(users[i].FavoriteMovies) )
                   => /\ users' = users
                      /\ (req'[r].res = <<201>> \/ Failed500(req'[r]))
                /\ ( /\ req[r].op = "removeFavorite"
                     /\ \A i \in mine : m \notin Range(users[i].FavoriteMovies) )
                   => /\ users' = users
                      /\ (req'[r].res = <<200>> \/ Failed500(req'[r]))]_vars

(* addFavorite(alice, m2) twice, both answered 201, m2 held once. *)
FavoritesIdempotentWitness ==
    /\ \A r \in ReqIds :
          /\ req[r].op = "addFavorite" /\ req[r].Username = alice
          /\ req[r].MovieID = "m2" /\ req[r].res = <<201>>
    /\ Len(users) = 1 /\ users[1].FavoriteMovies = <<"m1", "m2">>

(* C9: a request one of whose store calls was rejected by a store failure   *)
(* is over (no retry) and was answered 500.                                 *)
StoreFailureIs500 ==
    \A r \in ReqIds :
        req[r].rejected = "StoreUnavailable" =>
            req[r].pc = "done" /\ req[r].res = <<500>>

(* C10: a findOneAndUpdate or findOneAndRemove for a username no record has *)
(* leaves the user records as they are and is answered 404 (500 if the      *)
(* store fails).                                                            *)
UnknownUser404 ==
    [][\A r \in ReqIds :
        ( /\ Acts(r)
          /\ req[r].pc \in {"Users.findOneAndUpdate", "Users.findOneAndRemove"}
          /\ ~Registered(req[r].Username) ) =>
            /\ users' = users
            /\ (req'[r].res = <<404>> \/ Failed500(req'[r]))]_vars

(* An update of bob01, who has no record, to a free username, and a         *)
(* deregistration of bob01, both answered 404 while alice is registered.    *)
UnknownUser404Witness ==
    /\ Registered(alice) /\ ~Registered(bob01)
    /\ \E r \in ReqIds :
          req[r].op = "update" /\ req[r].Username = bob01 /\ req[r].res = <<404>>
    /\ \E r \in ReqIds :
          req[r].op = "deregister" /\ req[r].Username = bob01 /\ req[r].res = <<404>>

Ok2xx == {<<200>>, <<201>>}

(* C11: a step that changes a user record is the last step of its request   *)
(* and answers 2xx; a step that answers anything else, or nothing yet,       *)
(* changes no record; and a 2xx answer of a mutating route is sent by the    *)
(* step of its one store write, with the write done in full.  No step        *)
(* changes a movie record.                                                   *)
NoPartialMutation ==
    [][\A r \in ReqIds :
        Acts(r) =>
            LET q == req[r]
                mine == {i \in DOMAIN users : users[i].Username = q.Username}
            IN
            /\ movies' = movies
            /\ users' # users => (q.res = <<>> /\ req'[r].res \in Ok2xx)
            /\ req'[r].res \notin Ok2xx => users' = users
            /\ (req'[r].res \in Ok2xx /\ q.op = "register") =>
                  /\ q.pc = "Users.create"
                  /\ Len(users') = Len(users) + 1
                  /\ SubSeq(users', 1, Len(users)) = users
                  /\ users'[Len(users')].Username = q.body.Username
                  /\ users'[Len(users')].Email = q.body.Email
                  /\ users'[Len(users')].Birthday = q.body.Birthday
                  /\ users'[Len(users')].FavoriteMovies = <<>>
            /\ (req'[r].res \in Ok2xx /\ q.op = "update") =>
                  /\ q.pc = "Users.findOneAndUpdate"
                  /\ \E i \in mine :
                        /\ users'[i].Username = q.body.Username
                        /\ users'[i].Email = q.body.Email
                        /\ users'[i].Birthday = q.body.Birthday
            /\ (req'[r].res \in Ok2xx /\ q.op = "addFavorite") =>
                  /\ q.pc = "Users.findOneAndUpdate"
                  /\ \E i \in mine : q.MovieID \in Range(users'[i].FavoriteMovies)
            /\ (req'[r].res \in Ok2xx /\ q.op = "removeFavorite") =>
                  /\ q.pc = "Users.findOneAndUpdate"
                  /\ \E i \in mine : q.MovieID \notin Range(users'[i].FavoriteMovies)
            /\ (req'[r].res \in Ok2xx /\ q.op = "deregister") =>
                  /\ q.pc = "Users.findOneAndRemove"
                  /\ Len(users') = Len(users) - 1]_vars

(* A registration answered 201 with its record stored, and a deregistration *)
(* the store rejected, answered 500, with alice's record still there.       *)
NoPartialMutationWitness ==
    /\ \E r \in ReqIds :
          /\ req[r].op = "register" /\ req[r].res = <<201>>
          /\ Registered(req[r].body.Username)
    /\ \E r \in ReqIds :
          /\ req[r].op = "deregister" /\ req[r].Username = alice
          /\ Failed500(req[r])
    /\ Registered(alice)

(* C12: when DELETE /users/:Username answers 200, no record with that       *)
(* username remains; a registration whose lookup then finds the name free   *)
(* goes on to create the record and is answered 201 (500 if the store       *)
(* fails), and the record it creates has empty favorites and the fields of  *)
(* its own body.                                                            *)
DeregisterFreesUsername ==
    [][\A r \in DOMAIN req :
        Acts(r) =>
            LET q == req[r] IN
            /\ (q.op = "deregister" /\ req'[r].res = <<200>>) =>
                  \A i \in DOMAIN users' : users'[i].Username # q.Username
            /\ (q.op = "register" /\ q.pc = "Users.findOne"
                    /\ ~Registered(q.body.Username)) =>
                  \/ req'[r].pc = "Users.create"
                  \/ Failed500(req'[r])
            /\ (q.op = "register" /\ q.pc = "Users.create") =>
                  \/ /\ req'[r].res = <<201>>
                     /\ users' = Append(users, NewUser(q.body))
                     /\ users'[Len(users')].FavoriteMovies = <<>>
                  \/ Failed500(req'[r]) /\ users' = users]_vars

(* C13: in a sequential run, when a removeFavorite of (user, movie) is       *)
(* answered 200 and the request served just before it was an addFavorite of *)
(* the same user and movie answered 201, no record of that user holds the   *)
(* movie id afterwards, whatever the favorites held before the two.         *)
AddThenRemove ==
    [][\A r \in ReqIds :
        (/\ r + 1 \in ReqIds
         /\ req[r].op = "addFavorite" /\ req[r].res = <<201>>
         /\ Acts(r + 1)
         /\ req[r + 1].op = "removeFavorite"
         /\ req[r + 1].Username = req[r].Username
         /\ req[r + 1].MovieID = req[r].MovieID
         /\ req'[r + 1].res = <<200>>)
        => \A i \in DOMAIN users' :
              users'[i].Username = req[r].Username =>
                  req[r].MovieID \notin Range(users'[i].FavoriteMovies)]_vars

(* alice, who held m1, added m2 and then removed it: m1 alone is left. *)
AddThenRemoveWitness ==
    /\ req[1].op = "addFavorite" /\ req[1].res = <<201>>
    /\ req[2].op = "removeFavorite" /\ req[2].res = <<200>>
    /\ req[1].Username = alice /\ req[2].Username = alice
    /\ req[1].MovieID = "m2" /\ req[2].MovieID = "m2"
    /\ \E i \in DOMAIN users :
          users[i].Username = alice /\ users[i].FavoriteMovies = <<"m1">>

Submitted == {b.Password : b \in Bodies}

(* C14: the Password field of every record is always the hash of a          *)
(* submitted password and never a submitted password itself; the record a   *)
(* registration creates and the record an update sets hold the hash of the  *)
(* password in that request's body.                                         *)
PasswordHashed ==
    /\ [](\A i \in DOMAIN users :
            /\ users[i].Password \in {hashPassword(p) : p \in Submitted}
            /\ users[i].Password \notin Submitted)
    /\ [][\A r \in ReqIds :
            Acts(r) =>
                /\ (req[r].op = "register" /\ req'[r].res = <<201>>) =>
                      users'[Len(users')].Password = hashPassword(req[r].body.Password)
                /\ (req[r].op = "update" /\ req'[r].res = <<200>>) =>
                      \E i \in Matching(req[r].Username) :
                          users'[i].Password = hashPassword(req[r].body.Password)]_vars

(* alice registered with pw; an update to bob01 with pw2 was answered 200   *)
(* and the record holds the hash of pw2.                                    *)
PasswordHashedWitness ==
    \E r \in ReqIds :
        /\ req[r].op = "update" /\ req[r].res = <<200>>
        /\ req[r].body.Password = pw2
        /\ \E i \in DOMAIN users :
              /\ users[i].Username = req[r].body.Username
              /\ users[i].Password = hashPassword(pw2)

UpdateCheckOrder ==
    [][\A r \in ReqIds :
        LET q == req[r]
            n == req'[r]
        IN
        /\ (q.pc = "done" /\ q.op = "update") => n = q
        /\ (q.pc = "idle" /\ n.op = "update") =>
              /\ users' = users
              /\ ~TokenOk(n.token) => n.res = <<401>>
              /\ (TokenOk(n.token) /\ ~validationResult(n.body)) => n.res = <<422>>
              /\ (TokenOk(n.token) /\ validationResult(n.body)) =>
                    (n.pc = "Users.findOne" /\ n.res = <<>>)
        /\ (q.op = "update" /\ q.pc = "Users.findOne" /\ Acts(r)) =>
              /\ users' = users
              /\ \/ Failed500(n)
                 \/ Registered(q.body.Username) /\ n.res = <<409>>
                 \/ /\ ~Registered(q.body.Username)
                    /\ n.pc = "Users.findOneAndUpdate" /\ n.res = <<>>
        /\ (q.op = "update" /\ q.pc = "Users.findOneAndUpdate" /\ Acts(r)) =>
              \/ Failed500(n) /\ users' = users
              \/ ~Registered(q.Username) /\ n.res = <<404>> /\ users' = users
              \/ Registered(q.Username) /\ n.res = <<200>>]_vars

(* An update of bob01, who has no record, to the name alice, which is       *)
(* taken, was answered 409; another with a bad token and a bad body, 401.   *)
UpdateCheckOrderWitness ==
    /\ Registered(alice) /\ ~Registered(bob01)
    /\ \E r \in ReqIds :
          /\ req[r].op = "update" /\ req[r].Username = bob01
          /\ req[r].body.Username = alice /\ req[r].res = <<409>>
    /\ \E r \in ReqIds :
          /\ req[r].op = "update" /\ ~TokenOk(req[r].token)
          /\ ~validationResult(req[r].body) /\ req[r].res = <<401>>

(* Position of a request in its handler: not arrived, at its first store    *)
(* call, at its second, answered.                                           *)
Rank(pc) ==
    CASE pc = "idle" -> 0
      [] pc \in {"Users.create", "Users.findOneAndUpdate"} -> 2
      [] pc = "done" -> 3
      [] OTHER -> 1

(* C17: a request has at most one response, and has one exactly when it is  *)
(* finished; a request inside its handler always has a next step to take,   *)
(* and every step of a request moves it forward, so that no handler sends   *)
(* twice and none leaves its request unanswered, store failures included.   *)
OneResponse ==
    /\ [](\A r \in ReqIds :
            /\ Len(req[r].res) <= 1
            /\ req[r].pc = "done" <=> Len(req[r].res) = 1
            /\ req[r].pc \notin {"idle", "done"} => ENABLED Step(r))
    /\ [][\A r \in ReqIds :
            Acts(r) => Rank(req'[r].pc) > Rank(req[r].pc)]_vars

(* One request failed at the store and was answered 500 once; another named *)
(* a malformed movie id and was answered 404 once, by the outer catch.      *)
OneResponseWitness ==
    /\ \E r \in ReqIds : Failed500(req[r]) /\ req[r].pc = "done"
    /\ \E r \in ReqIds :
          /\ req[r].op = "addFavorite" /\ req[r].rejected = "CastError"
          /\ req[r].res = <<404>> /\ req[r].pc = "done"

(* C18: a step of a request leaves the movies as they are, and either leaves *)
(* the users as they are, or (registration) appends exactly one record, of  *)
(* the body's Username, or (update, favorites) changes exactly one record,  *)
(* whose Username is the path's, or (deregistration) removes exactly one    *)
(* record, whose Username is the path's; every other record stays as it is. *)
OneRecordTouched ==
    [][\A r \in ReqIds :
        Acts(r) =>
            LET q == req[r] IN
            /\ movies' = movies
            /\ \/ users' = users
               \/ /\ q.op = "register"
                  /\ Len(users') = Len(users) + 1
                  /\ \A j \in DOMAIN users : users'[j] = users[j]
                  /\ users'[Len(users')].Username = q.body.Username
               \/ /\ q.op \in {"update", "addFavorite", "removeFavorite"}
                  /\ Len(users') = Len(users)
                  /\ \E i \in DOMAIN users :
                        /\ users[i].Username = q.Username
                        /\ \A j \in DOMAIN users : j # i => users'[j] = users[j]
               \/ /\ q.op = "deregister"
                  /\ Len(users') = Len(users) - 1
                  /\ \E i \in DOMAIN users :
                        /\ users[i].Username = q.Username
                        /\ \A j \in DOMAIN users' :
                              users'[j] = IF j < i THEN users[j] ELSE users[j + 1]]_vars

(* bob01 registered beside alice and was then deregistered with 200:        *)
(* alice's record is the one it was.                                        *)
OneRecordTouchedWitness ==
    /\ users \in InitUsers /\ Registered(alice)
    /\ \E r, d \in ReqIds :
          /\ req[r].op = "register" /\ req[r].body.Username = bob01
          /\ req[r].res = <<201>>
          /\ req[d].op = "deregister" /\ req[d].Username = bob01
          /\ req[d].res = <<200>>

(* C19: the update step of a PUT answered 200 leaves the FavoriteMovies of   *)
(* the record it sets, renamed or not, as it was, and leaves every other    *)
(* record as it was; and when a run holds an addFavorite answered 201 and a *)
(* PUT answered 200 and no removal of records or favorites, whatever the    *)
(* interleaving, some record still holds the movie id that was added.       *)
UpdateKeepsFavorites ==
    /\ [](\A a, u \in ReqIds :
            (/\ req[a].op = "addFavorite" /\ req[a].res = <<201>>
             /\ req[u].op = "update" /\ req[u].res = <<200>>
             /\ \A x \in ReqIds : req[x].op \notin {"removeFavorite", "deregister"})
            => \E i \in DOMAIN users :
                  req[a].MovieID \in Range(users[i].FavoriteMovies))
    /\ [][\A r \in ReqIds :
            (Acts(r) /\ req[r].op = "update" /\ req'[r].res = <<200>>) =>
                /\ Len(users') = Len(users)
                /\ \E i \in DOMAIN users :
                      /\ users[i].Username = req[r].Username
                      /\ users'[i].Username = req[r].body.Username
                      /\ users'[i].FavoriteMovies = users[i].FavoriteMovies
                      /\ \A j \in DOMAIN users : j # i => users'[j] = users[j]]_vars

(* alice, holding m1, was renamed to bob01 with 200 while m2 was added to   *)
(* her favorites with 201: the record bob01 holds m1 and m2.                *)
UpdateKeepsFavoritesWitness ==
    /\ \E a, u \in ReqIds :
          /\ req[a].op = "addFavorite" /\ req[a].MovieID = "m2"
          /\ req[a].res = <<201>>
          /\ req[u].op = "update" /\ req[u].Username = alice
          /\ req[u].body.Username = bob01 /\ req[u].res = <<200>>
    /\ \E i \in DOMAIN users :
          /\ users[i].Username = bob01
          /\ users[i].FavoriteMovies = <<"m1", "m2">>

=============================================================================
